---- MODULE Spec2Model ----
(***************************************************************************)
(* Model of src/server.py: the Server object of the adventure game, its    *)
(* methods (connect, greet, get_input, move, say, quit, route,             *)
(* push_output, serve) and the client on the other end of the connection.  *)
(*                                                                         *)
(* Python strings are TLA+ strings (Len, SubSeq and \o work on them), so   *)
(* split / join / startswith / slicing are computed as the code computes   *)
(* them.  An exception is the value of err after a call: "None" when the   *)
(* call returned normally, the exception's class name when it raised.      *)
(***************************************************************************)
EXTENDS Integers, Sequences, FiniteSets, TLC

VARIABLES
    input_buffer,       \* self.input_buffer
    output_buffer,      \* self.output_buffer: Str(text) or Method
    done,               \* self.done
    room,               \* self.room
    socket,             \* self.socket: "None", "listening", "closed"
    client_connection,  \* self.client_connection: "None", "open", "closed"
    sent,               \* messages written to the connection by sendall, oldest first
    wire,               \* what the client has written and no recv has consumed yet,
                        \* one element per write; "" at the end: the client has closed
    pc,                 \* "idle", or the position of the running serve()
    err,                \* outcome of the last call: "None" or the exception raised
    calls,              \* the actions invoked by the last route(), in order
    last,               \* the last method call and the state it started from
    trace,              \* the events of the last serve() run, in order
    ops                 \* number of method calls and client writes made so far

vars == <<input_buffer, output_buffer, done, room, socket, client_connection,
          sent, wire, pc, err, calls, last, trace, ops>>

----------------------------------------------------------------------------
(* Bounds *)

MaxOps == 4
MaxWire == 3

\* The lines a caller hands to route (no line contains the "\n" delimiter).
Lines ==
    { "move north", "move south", "move east", "move west", "move up", "move",
      "move  north",
      "say hi", "say hi there", "say", "quit", "quit now", "dance", "" }

\* What a client writes to the connection, write by write: a session of three
\* lines, a line split over two writes, two lines in one write, a line with
\* trailing spaces.
ClientScripts ==
    { << "move north\n", "say hi there\n", "quit\n" >>,
      << "move nor", "th\n" >>,
      << "move north\nmove south\n" >>,
      << "say hi  \n" >> }

----------------------------------------------------------------------------
(* Values *)

Str(text) == [t |-> "str", v |-> text]

\* The bound method self.room_description, as a value.
Method == [t |-> "method", v |-> "room_description"]

game_name == "Realms of Venture"

\* A map without the way back from room 3.
moves_no_return ==
    [ k \in { <<0, "north">>, <<0, "east">>, <<0, "west">>,
              <<1, "east">>, <<2, "west">> } |->
        CASE k = <<0, "north">> -> 3
          [] k = <<0, "east">>  -> 2
          [] k = <<0, "west">>  -> 1
          [] k = <<1, "east">>  -> 0
          [] k = <<2, "west">>  -> 0 ]

\* A map with a destination that is not a room.
moves_out_of_range ==
    [ k \in { <<0, "north">>, <<0, "east">>, <<0, "west">>,
              <<1, "east">>, <<2, "west">>, <<3, "south">> } |->
        CASE k = <<0, "north">> -> 4
          [] k = <<0, "east">>  -> 2
          [] k = <<0, "west">>  -> 1
          [] k = <<1, "east">>  -> 0
          [] k = <<2, "west">>  -> 0
          [] k = <<3, "south">> -> 0 ]

moves ==
    [ k \in { <<0, "north">>, <<0, "east">>, <<0, "west">>,
              <<1, "east">>, <<2, "west">>, <<3, "south">> } |->
        CASE k = <<0, "north">> -> 3
          [] k = <<0, "east">>  -> 2
          [] k = <<0, "west">>  -> 1
          [] k = <<1, "east">>  -> 0
          [] k = <<2, "west">>  -> 0
          [] k = <<3, "south">> -> 0 ]

room_descs ==
    << "You are in a large room with stone walls and a wooden door                       on the north, east, and west walls.",
       "You enter a small storage room with shelves full of                       strange jars.",
       "This room has fancy red wallpaper and a skylight in the                       ceiling.",
       "There appears to be nothing in this room but a marble                       statue of a wizard." >>

\* room_descs is indexed from 0 in the code; negative indices count from the end.
room_description(room_number) ==
    IF room_number \in 0..3 THEN room_descs[room_number + 1]
    ELSE IF room_number \in -4..-1 THEN room_descs[room_number + 5]
    ELSE "Whoops, something went wrong with the room system."

----------------------------------------------------------------------------
(* String functions of Python, on TLA+ strings *)

startswith(str, prefix) ==
    /\ Len(str) >= Len(prefix)
    /\ SubSeq(str, 1, Len(prefix)) = prefix

\* str[n:]
slice_from(str, n) == SubSeq(str, n + 1, Len(str))

RECURSIVE split(_, _)
\* str.split(sep) for a one-character sep
split(str, sep) ==
    LET hits == { i \in 1..Len(str) : SubSeq(str, i, i) = sep }
    IN  IF hits = {} THEN << str >>
        ELSE LET i == CHOOSE h \in hits : \A g \in hits : h <= g
             IN  << SubSeq(str, 1, i - 1) >> \o split(SubSeq(str, i + 1, Len(str)), sep)

RECURSIVE join(_, _)
\* sep.join(list)
join(sep, list) ==
    IF Len(list) = 0 THEN ""
    ELSE IF Len(list) = 1 THEN list[1]
    ELSE list[1] \o sep \o join(sep, Tail(list))

----------------------------------------------------------------------------
(* The methods, as functions of the object's state s.  s.err # "None"      *)
(* means an exception is propagating: the rest of the caller is skipped.   *)

raise(s, exception) == [s EXCEPT !.err = exception]

\* One more entry in the record of the actions route has invoked.
invoked(s, fn, argument) ==
    [s EXCEPT !.calls = Append(@, [fn |-> fn, arg |-> argument, done |-> s.done])]

greet(s) ==
    [s EXCEPT !.output_buffer =
        Str("Welcome to " \o game_name \o "! " \o room_description(s.room))]

\* push_output that forgets the trailing newline.
push_output_unterminated(s) ==
    IF s.client_connection = "None" THEN raise(s, "AttributeError")
    ELSE IF s.output_buffer.t # "str" THEN raise(s, "AttributeError")
    ELSE IF s.client_connection = "closed" THEN raise(s, "OSError")
    ELSE [s EXCEPT !.sent = Append(@, "OK! " \o s.output_buffer.v)]

push_output(s) ==
    IF s.client_connection = "None" THEN raise(s, "AttributeError")
    ELSE IF s.output_buffer.t # "str" THEN raise(s, "AttributeError")
    ELSE IF s.client_connection = "closed" THEN raise(s, "OSError")
    ELSE [s EXCEPT !.sent = Append(@, "OK! " \o s.output_buffer.v \o "\n")]

\* move without the except clause: the KeyError of the lookup propagates.
move_unguarded(s0, argument) ==
    LET s == invoked(s0, "move", argument)
    IN  IF <<s.room, argument>> \in DOMAIN moves
        THEN [s EXCEPT !.room = moves[<<s.room, argument>>],
                       !.output_buffer = Method]
        ELSE raise(s, "KeyError")

move(s0, argument) ==
    LET s == invoked(s0, "move", argument)
    IN  IF <<s.room, argument>> \in DOMAIN moves
        THEN [s EXCEPT !.room = moves[<<s.room, argument>>],
                       !.output_buffer = Method]
        ELSE [s EXCEPT !.output_buffer = Str("You can't go that way from here!")]

\* say that also sets done, as quit does.
say_sets_done(s0, argument) ==
    LET s == invoked(s0, "say", argument)
    IN  IF s.output_buffer.t # "str" THEN raise(s, "TypeError")
        ELSE [s EXCEPT !.output_buffer =
                 Str(@.v \o "You say: \"" \o argument \o "\""),
                       !.done = TRUE]

say(s0, argument) ==
    LET s == invoked(s0, "say", argument)
    IN  IF s.output_buffer.t # "str" THEN raise(s, "TypeError")
        ELSE [s EXCEPT !.output_buffer =
                 Str(@.v \o "You say: \"" \o argument \o "\"")]

quit(s0, argument) ==
    LET s  == invoked(s0, "quit", argument)
        s1 == IF s.output_buffer.t # "str" THEN raise(s, "TypeError")
              ELSE [s EXCEPT !.output_buffer = Str(@.v \o "Goodbye!")]
        s2 == IF s1.err # "None" THEN s1 ELSE push_output(s1)
    IN  IF s2.err # "None" THEN s2 ELSE [s2 EXCEPT !.done = TRUE]

route(s) ==
    LET received  == split(s.input_buffer, " ")
        command   == Head(received)
        arguments == join(" ", Tail(received))
        s1 == CASE command = "quit" -> quit(s, arguments)
                [] command = "move" -> move(s, arguments)
                [] command = "say"  -> say(s, arguments)
                [] OTHER            -> raise(s, "KeyError")
    IN  IF s1.err # "None" THEN s1
        ELSE IF startswith(s1.input_buffer, "say ")
             THEN say(s1, slice_from(s1.input_buffer, 4))
        ELSE IF startswith(s1.input_buffer, "move ")
             THEN move(s1, slice_from(s1.input_buffer, 5))
        ELSE IF s1.input_buffer = "quit"
             THEN quit(s1, "None")
        ELSE s1

\* get_input: received starts as b'\n', so the recv loop is not entered, and
\* received.decode.strip is an attribute of a method that does not exist.
get_input(s) == raise(s, "AttributeError")

----------------------------------------------------------------------------
(* The object's state as a record, and back *)

self ==
    [ input_buffer |-> input_buffer, output_buffer |-> output_buffer,
      done |-> done, room |-> room, client_connection |-> client_connection,
      sent |-> sent, calls |-> << >>, err |-> "None" ]

before(op, line) ==
    [ op |-> op, line |-> line, room |-> room, done |-> done,
      out |-> output_buffer, nsent |-> Len(sent),
      conn |-> client_connection ]

Store(s) ==
    /\ input_buffer' = s.input_buffer
    /\ output_buffer' = s.output_buffer
    /\ done' = s.done
    /\ room' = s.room
    /\ sent' = s.sent
    /\ err' = s.err

Event(e, msg) == [e |-> e, msg |-> msg]

----------------------------------------------------------------------------
Init ==
    /\ input_buffer = ""
    /\ output_buffer = Str("")
    /\ done = FALSE
    /\ room = 0
    /\ socket = "None"
    /\ client_connection = "None"
    /\ sent = << >>
    /\ wire = << >>
    /\ pc = "idle"
    /\ err = "None"
    /\ calls = << >>
    /\ last = [ op |-> "init", line |-> "", room |-> 0, done |-> FALSE,
                out |-> Str(""), nsent |-> 0, conn |-> "None" ]
    /\ trace = << >>
    /\ ops = 0

\* A caller may start a method when no serve() is running.
CanCall == pc = "idle" /\ ops < MaxOps

\* connect(): a fresh listening socket, then accept() returns the client's
\* connection.  Binding the port again while an earlier connection of this
\* object exists succeeds or fails with OSError, depending on the platform.
connect(ok) ==
    IF ok
    THEN /\ socket' = "listening"
         /\ client_connection' = "open"
         /\ wire' = << >>
         /\ err' = "None"
    ELSE /\ socket' = "closed"
         /\ err' = "OSError"
         /\ UNCHANGED <<client_connection, wire>>

connect_outcomes == IF client_connection = "None" THEN {TRUE} ELSE {TRUE, FALSE}

Connect ==
    /\ CanCall
    /\ \E ok \in connect_outcomes : connect(ok)
    /\ last' = before("connect", "")
    /\ ops' = ops + 1
    /\ UNCHANGED <<input_buffer, output_buffer, done, room, sent, pc, calls, trace>>

Greet ==
    /\ CanCall
    /\ Store(greet(self))
    /\ last' = before("greet", "")
    /\ ops' = ops + 1
    /\ UNCHANGED <<socket, client_connection, wire, pc, calls, trace>>

\* last.line of a get_input call holds the bytes recv could have delivered.
GetInput ==
    /\ CanCall
    /\ Store(get_input(self))
    /\ last' = before("get_input", join("", wire))
    /\ ops' = ops + 1
    /\ UNCHANGED <<socket, client_connection, wire, pc, calls, trace>>

\* The caller puts a line into input_buffer, as get_input is documented to,
\* and calls route().
Route(line) ==
    /\ CanCall
    /\ LET s == route([self EXCEPT !.input_buffer = line])
       IN  /\ Store(s)
           /\ calls' = s.calls
    /\ last' = before("route", line)
    /\ ops' = ops + 1
    /\ UNCHANGED <<socket, client_connection, wire, pc, trace>>

PushOutput ==
    /\ CanCall
    /\ Store(push_output(self))
    /\ last' = before("push_output", "")
    /\ ops' = ops + 1
    /\ UNCHANGED <<socket, client_connection, wire, pc, calls, trace>>

\* The client has closed its end: every recv from now on returns b''.
Disconnected == Len(wire) > 0 /\ wire[Len(wire)] = ""

\* The client makes the next write of its script on the open connection.
ClientSend(chunk) ==
    /\ client_connection = "open"
    /\ ~Disconnected
    /\ Len(wire) < MaxWire
    /\ \E script \in ClientScripts :
          /\ Len(script) > Len(wire)
          /\ SubSeq(script, 1, Len(wire) + 1) = Append(wire, chunk)
    /\ wire' = Append(wire, chunk)
    /\ ops < MaxOps
    /\ ops' = ops + 1
    /\ UNCHANGED <<input_buffer, output_buffer, done, room, socket,
                   client_connection, sent, pc, err, calls, last, trace>>

\* A complete line is waiting to be read.
LinePending ==
    \E i \in 1..Len(wire) : \E j \in 1..Len(wire[i]) : SubSeq(wire[i], j, j) = "\n"

\* The client closes the connection from its side, before it has written a
\* complete line.
ClientClose ==
    /\ client_connection = "open"
    /\ ~Disconnected
    /\ ~LinePending
    /\ wire' = Append(wire, "")
    /\ ops < MaxOps
    /\ ops' = ops + 1
    /\ UNCHANGED <<input_buffer, output_buffer, done, room, socket,
                   client_connection, sent, pc, err, calls, last, trace>>

----------------------------------------------------------------------------
(* serve(), one step per statement; an exception ends the call *)

\* serve() is called: connect()
Serve ==
    /\ CanCall
    /\ \E ok \in connect_outcomes :
        /\ connect(ok)
        /\ pc' = IF ok THEN "greet" ELSE "idle"
        /\ trace' = IF ok THEN << Event("accept", "") >> ELSE << >>
    /\ last' = before("serve", "")
    /\ ops' = ops + 1
    /\ UNCHANGED <<input_buffer, output_buffer, done, room, sent, calls>>

\* serve() that reads the first line before it greets.
ServeGreet_reads_first ==
    /\ pc = "greet"
    /\ LET s == get_input(self)
       IN  /\ Store(s)
           /\ pc' = IF s.err = "None" THEN "greet" ELSE "idle"
           /\ trace' = Append(trace, Event("get_input", s.err))
    /\ UNCHANGED <<socket, client_connection, wire, calls, last, ops>>

\* self.greet()
ServeGreet ==
    /\ pc = "greet"
    /\ Store(greet(self))
    /\ pc' = "push"
    /\ UNCHANGED <<socket, client_connection, wire, calls, last, trace, ops>>

\* self.push_output(), after greet
ServePush ==
    /\ pc = "push"
    /\ LET s == push_output(self)
       IN  /\ Store(s)
           /\ pc' = IF s.err = "None" THEN "loop" ELSE "idle"
           /\ trace' = IF s.err = "None"
                       THEN Append(trace, Event("send", s.sent[Len(s.sent)]))
                       ELSE Append(trace, Event("raise", s.err))
    /\ UNCHANGED <<socket, client_connection, wire, calls, last, ops>>

\* serve() whose loop does not test self.done.
ServeLoop_ignores_done ==
    /\ pc = "loop"
    /\ LET s == get_input(self)
       IN  /\ Store(s)
           /\ pc' = IF s.err = "None" THEN "route" ELSE "idle"
           /\ trace' = Append(trace, Event("get_input", s.err))
    /\ UNCHANGED <<socket, client_connection, wire, calls, last, ops>>

\* while not self.done: self.get_input() ...
ServeLoop ==
    /\ pc = "loop"
    /\ IF done
       THEN /\ pc' = "close"
            /\ UNCHANGED <<input_buffer, output_buffer, done, room, sent, err, trace>>
       ELSE LET s == get_input(self)
            IN  /\ Store(s)
                /\ pc' = IF s.err = "None" THEN "route" ELSE "idle"
                /\ trace' = Append(trace, Event("get_input", s.err))
    /\ UNCHANGED <<socket, client_connection, wire, calls, last, ops>>

\* self.client_connection.close(); self.socket.close()
ServeClose ==
    /\ pc = "close"
    /\ client_connection' = "closed"
    /\ socket' = "closed"
    /\ trace' = Append(trace, Event("close", ""))
    /\ pc' = "idle"
    /\ UNCHANGED <<input_buffer, output_buffer, done, room, sent, wire, err,
                   calls, last, ops>>

Next ==
    \/ Connect
    \/ Greet
    \/ GetInput
    \/ \E line \in Lines : Route(line)
    \/ PushOutput
    \/ \E script \in ClientScripts : \E i \in 1..Len(script) : ClientSend(script[i])
    \/ ClientClose
    \/ Serve
    \/ ServeGreet
    \/ ServePush
    \/ ServeLoop
    \/ ServeClose

Spec == Init /\ [][Next]_vars

----------------------------------------------------------------------------
(* Properties.  last holds the line of the last route() call and the state *)
(* it started from; the unprimed variables hold the state it left.         *)

Routed == last.op = "route"

CantGo == "You can't go that way from here!"

Directions == { "north", "south", "east", "west" }

\* The verb and the argument of a line, as section 4.3 of the specification
\* defines them: the text before the first space, and the text after it.
Verb(line) ==
    IF \E i \in 1..Len(line) : SubSeq(line, i, i) = " "
    THEN LET i == CHOOSE j \in 1..Len(line) :
                    /\ SubSeq(line, j, j) = " "
                    /\ \A k \in 1..(j - 1) : SubSeq(line, k, k) # " "
         IN  SubSeq(line, 1, i - 1)
    ELSE line

Rest(line) ==
    IF Len(Verb(line)) = Len(line) THEN ""
    ELSE SubSeq(line, Len(Verb(line)) + 2, Len(line))

\* C1: a line handed to route invokes at most one action (move, say or quit).
C1_AtMostOneAction == Routed => Len(calls) <= 1

\* C2: 'move D' in room R with (R, D) in the move map sets the room to
\* moves[(R, D)] and the response is the description of that room.
C2_LegalMove ==
    \A d \in Directions :
        (Routed /\ last.line = "move " \o d /\ <<last.room, d>> \in DOMAIN moves)
        => /\ err = "None"
           /\ room = moves[<<last.room, d>>]
           /\ output_buffer = Str(room_description(moves[<<last.room, d>>]))

C4_SayOverwrites ==
    (Routed /\ Verb(last.line) = "say")
    => /\ err = "None"
       /\ output_buffer = Str("You say: \"" \o Rest(last.line) \o "\"")

\* C5: a 'say' line leaves the current room and the done flag unchanged.
C5_SayFrame ==
    (Routed /\ Verb(last.line) = "say") => (room = last.room /\ done = last.done)

\* C5 happens: a multi-word utterance is said in a room other than the start
\* room, and both of route's dispatches ran.
C5_Witness ==
    /\ Routed /\ last.line = "say hi there" /\ last.room = 1 /\ room = 1
    /\ Len(calls) = 2 /\ err = "None"

\* C6: a 'quit' line, whatever its argument, sets done and sends the
\* farewell 'OK! Goodbye!' exactly once.
C6_QuitOnce ==
    (Routed /\ Verb(last.line) = "quit" /\ last.conn = "open")
    => /\ done
       /\ Len(sent) = last.nsent + 1
       /\ sent[Len(sent)] = "OK! Goodbye!\n"

\* C8: a line whose verb is not move, say or quit raises nothing, changes
\* neither room nor done, and is answered with a text (the session goes on).
C8_UnknownVerb ==
    (Routed /\ Verb(last.line) \notin {"move", "say", "quit"})
    => /\ err = "None"
       /\ room = last.room
       /\ done = last.done
       /\ output_buffer.t = "str"

\* C7: once done is true, a running serve() reads no input and dispatches no
\* command, and nothing is sent after the connection was closed.
C7_StopsWhenDone ==
    /\ [][ (pc # "idle" /\ done) =>
             \A i \in (Len(trace) + 1)..Len(trace') :
                 trace'[i].e \notin {"get_input", "recv", "route"} ]_vars
    /\ [](\A i, j \in 1..Len(trace) :
             (i < j /\ trace[i].e = "close") => trace[j].e \notin {"send", "raise"})

\* C7 happens: serve() ran with done true, sent its response and then closed
\* the connection.
C7_Witness ==
    /\ done /\ pc = "idle" /\ last.op = "serve"
    /\ client_connection = "closed" /\ socket = "closed"
    /\ Len(trace) = 3
    /\ trace[2].e = "send" /\ trace[2].msg = sent[Len(sent)]
    /\ trace[3].e = "close"

WellFormed(m) ==
    /\ Len(m) >= 5
    /\ SubSeq(m, 1, 4) = "OK! "
    /\ SubSeq(m, Len(m), Len(m)) = "\n"
    /\ \A i \in 5..(Len(m) - 1) : SubSeq(m, i, i) # "\n"

\* C9: every message sent is 'OK! ', a text without a newline, one newline.
C9_EveryMessageFramed == \A i \in 1..Len(sent) : WellFormed(sent[i])

\* C9 happens: a greeting, the response to a say line and a farewell were sent.
C9_Witness ==
    /\ Len(sent) = 3
    /\ sent[1] = "OK! Welcome to Realms of Venture! " \o room_descs[1] \o "\n"
    /\ Routed /\ last.line = "quit now" /\ done
    /\ \E i \in 1..(Len(sent[3]) - 7) : SubSeq(sent[3], i, i + 7) = "You say:"

Greeting(m) == startswith(m, "OK! Welcome to " \o game_name \o "! ")

\* C10: after accept, the first thing serve() does on the connection is send
\* the greeting: before any read, and whether or not the client has written.
C10_GreetingFirst ==
    /\ Len(trace) >= 1 => trace[1].e = "accept"
    /\ Len(trace) >= 2 => (trace[2].e = "send" /\ Greeting(trace[2].msg))
    /\ pc = "greet" => ENABLED ServeGreet
    /\ pc = "push" => ENABLED ServePush

\* C10 happens: the greeting went out while the client had written nothing,
\* and the read came after it.
C10_Witness ==
    /\ last.op = "serve" /\ pc = "idle" /\ wire = << >>
    /\ Len(trace) = 3
    /\ trace[2].e = "send" /\ Greeting(trace[2].msg)
    /\ trace[3].e = "get_input"

----------------------------------------------------------------------------
(* Properties of get_input and of whole sessions *)

\* A get_input() call by the caller has ended; last.line holds the bytes the
\* client had written when it was called.
GotInput == last.op = "get_input"

\* A serve() call that accepted a connection has ended.
ServeEnded == last.op = "serve" /\ pc = "idle" /\ Len(trace) >= 1

C12_DisconnectCloses ==
    (ServeEnded /\ Disconnected /\ ~last.done)
    => /\ client_connection = "closed"
       /\ trace[Len(trace)].e = "close"

\* C13: from room 0, 'move north' leads to room 3 and a following
\* 'move south' leads back to room 0.
C13_NorthThenSouth ==
    /\ []((Routed /\ last.line = "move north" /\ last.room = 0) => room = 3)
    /\ [][ ( /\ Routed /\ last.line = "move north" /\ last.room = 0
             /\ last'.op = "route" /\ last'.line = "move south" /\ ops' = ops + 1 )
           => (room = 3 /\ room' = 0 /\ err' = "None") ]_vars

\* C13 happens: 'move south' was routed in room 3, which is only entered by
\* 'move north' from room 0, and the session is in room 0 again.
C13_Witness ==
    /\ Routed /\ last.line = "move south" /\ last.room = 3 /\ room = 0
    /\ err = "None" /\ ops >= 2

\* C14: for the client that writes 'move north', 'say hi there', 'quit' to a
\* fresh server, the messages of the session are the greeting, the
\* description of room 3, the quoted utterance and the farewell, and the
\* connection is closed afterwards.
C14_EndToEnd ==
    ( /\ ServeEnded
      /\ wire = << "move north\n", "say hi there\n", "quit\n" >>
      /\ last.room = 0 /\ ~last.done /\ last.nsent = 0 )
    => /\ sent = << "OK! Welcome to Realms of Venture! " \o room_descs[1] \o "\n",
                    "OK! " \o room_descs[4] \o "\n",
                    "OK! You say: \"hi there\"\n",
                    "OK! Goodbye!\n" >>
       /\ client_connection = "closed"

\* C15: serve() leaves its loop only because done is true or the stream is
\* closed, never through an exception: a call that has ended has closed the
\* connection and raised nothing.
C15_NoUncaughtError ==
    ServeEnded => (err = "None" /\ trace[Len(trace)].e = "close")

\* C16: the session starts in room 0 with done false, and the room is always
\* one of the rooms 0..3, each with a description, and done a boolean.
C16_RoomInMap ==
    /\ (room = 0 /\ done = FALSE)
    /\ [](/\ room \in 0..3
          /\ done \in BOOLEAN
          /\ \E i \in 1..Len(room_descs) : room_description(room) = room_descs[i])

\* C16 happens: the session has moved away from the start room and has quit.
C16_Witness == room = 3 /\ done /\ Routed /\ last.room = 3 /\ ~last.done

\* C17: when one write carries two lines, get_input returns the first line
\* only (the second is kept for the next call).
C17_OneLinePerCall ==
    (GotInput /\ last.line = "move north\nmove south\n")
    => (err = "None" /\ input_buffer = "move north")

\* C18: on an open connection, get_input ends only when the client has
\* written a complete line.
C18_Blocking ==
    [][ ( /\ client_connection = "open"
          /\ \/ (last'.op = "get_input" /\ ops' = ops + 1)
             \/ ( /\ Len(trace') = Len(trace) + 1
                  /\ trace'[Len(trace')].e = "get_input" ) )
        => LinePending ]_vars

\* C19: the line get_input hands on is the received line without its
\* delimiter and with its trailing spaces.
C19_WhitespacePreserved ==
    (GotInput /\ last.line = "say hi  \n")
    => (err = "None" /\ input_buffer = "say hi  ")

\* C20: one line gives one message: routing a line never puts more than one
\* message on the connection, whatever the command.
C20_OneMessagePerLine == Routed => Len(sent) <= last.nsent + 1

====
